---- MODULE Spec2Model ----
(***************************************************************************)
(* Model of go-result-and-option: the generic containers Option[T]         *)
(* (option/option.go) and Result[T] (result package).                      *)
(*                                                                         *)
(* A *T is modelled by a number: Nil (0) is the nil pointer, 1..MaxVal are *)
(* distinct non-nil pointers.  An error is modelled the same way: NilErr   *)
(* (0) is the nil interface value, 1..MaxErr are distinct non-nil errors.  *)
(* Containers live in two heaps (sequences of allocated objects); a        *)
(* pointer to a container is a record [ref, val, err] whose ref is NilRef  *)
(* for the nil pointer, Fresh for an object the callee has just allocated  *)
(* (its fields are then val and err) and a heap index otherwise.           *)
(* Every Call action is one call of one exported function or method; it    *)
(* records the call, its arguments and its outcome in `last`.  Return is   *)
(* the caller consuming that outcome; calls are made one at a time.        *)
(* A caller-supplied function is given either as a function (Fns, ErrFns)  *)
(* or by the value it returns on the one argument the body passes to it.   *)
(***************************************************************************)
EXTENDS Integers, Sequences, FiniteSets, TLC

VARIABLES oheap, rheap, last

vars == <<oheap, rheap, last>>

\* ---- bounds ----
MaxVal == 2
MaxErr == 2
MaxObjs == 2

\* ---- values ----
Nil == 0
NilErr == 0
NilRef == -1
Fresh == 0

PtrT == {Nil} \cup (1..MaxVal)
ErrT == {NilErr} \cup (1..MaxErr)
Msgs == {"msg", "other msg"}

\* the fixed diagnostics (the source quotes the names in backquotes, written ' here)
OptionUnwrapMsg == "called 'Option::unwrap()' on a 'None' value"
ResultUnwrapMsg == "called 'Result::unwrap()' on an 'Err' value"
ResultUnwrapErrMsg == "called 'Result::unwrap_err()' on an 'Ok' value"
NilDerefMsg == "runtime error: invalid memory address or nil pointer dereference"

\* ---- pointers to containers ----
NilPtr == [ref |-> NilRef, val |-> Nil, err |-> NilErr]
HeapPtr(i) == [ref |-> i, val |-> Nil, err |-> NilErr]
FreshOpt(v) == [ref |-> Fresh, val |-> v, err |-> NilErr]
FreshRes(v, e) == [ref |-> Fresh, val |-> v, err |-> e]

\* the struct a non-nil pointer points to
OptionOf(p) == IF p.ref = Fresh THEN [value |-> p.val] ELSE oheap[p.ref]
ResultOf(p) == IF p.ref = Fresh THEN [value |-> p.val, err |-> p.err] ELSE rheap[p.ref]

OptHeapPtrs == {HeapPtr(i) : i \in 1..Len(oheap)}
ResHeapPtrs == {HeapPtr(i) : i \in 1..Len(rheap)}
\* the pointers a caller can hold: nil, a kept object, a temporary built by a constructor
OptRecvs == {NilPtr} \cup OptHeapPtrs
OptPtrs == OptRecvs \cup {FreshOpt(v) : v \in PtrT}
ResPtrs == ResHeapPtrs \cup {FreshRes(v, NilErr) : v \in PtrT} \cup {FreshRes(Nil, e) : e \in ErrT}

\* ---- caller-supplied functions ----
Fns == {[x \in PtrT |-> c] : c \in PtrT} \cup {[x \in PtrT |-> x], [x \in PtrT |-> IF x = Nil THEN 1 ELSE Nil]}
ErrFns == {[x \in ErrT |-> c] : c \in ErrT} \cup {[x \in ErrT |-> x]}
NoFn == [x \in PtrT |-> Nil]

\* ---- outcome of a call ----
Out0 == [panicked |-> FALSE, pmsg |-> "", rkind |-> "void", rv |-> Nil, re |-> NilErr, rb |-> FALSE, rp |-> NilPtr, called |-> FALSE]
RetVal(v) == [Out0 EXCEPT !.rkind = "value", !.rv = v]
RetErr(e) == [Out0 EXCEPT !.rkind = "error", !.re = e]
RetBool(b) == [Out0 EXCEPT !.rkind = "bool", !.rb = b]
RetOpt(p) == [Out0 EXCEPT !.rkind = "option", !.rp = p]
RetRes(p) == [Out0 EXCEPT !.rkind = "result", !.rp = p]
Panic(msg) == [Out0 EXCEPT !.rkind = "panic", !.panicked = TRUE, !.pmsg = msg]
Called(o) == [o EXCEPT !.called = TRUE]

Call0 == [op |-> "idle", recv |-> NilPtr, argv |-> Nil, arge |-> NilErr, argmsg |-> "", argp |-> NilPtr, argb |-> FALSE, fn |-> NoFn, out |-> Out0]

Rec(op, recv, o) == [Call0 EXCEPT !.op = op, !.recv = recv, !.out = o]

\* the caller makes one call at a time: the next one starts when the outcome
\* of the last one has been consumed
Idle == last = Call0

\* a call that only reads: it records its outcome and writes no container
Reads(rec) == Idle /\ last' = rec /\ UNCHANGED <<oheap, rheap>>

\* the caller consumes the outcome of the call (a returned value, or a panic it recovers from)
Return == ~Idle /\ last' = Call0 /\ UNCHANGED <<oheap, rheap>>

Init ==
    /\ oheap = <<>>
    /\ rheap = <<>>
    /\ last = Call0

\* ======================= package option =======================

\* ---- constructors: the struct each one builds ----
OptionNewStruct(v) == IF v = Nil THEN [value |-> Nil] ELSE [value |-> v]
OptionSomeStruct(v) == [value |-> v]
OptionNoneStruct == [value |-> Nil]

\* the caller either keeps the new object (it joins the heap) or uses it as a temporary
OptionConstruct(op, v, s) ==
    \/ /\ Idle
       /\ Len(oheap) + Len(rheap) < MaxObjs
       /\ oheap' = Append(oheap, s)
       /\ last' = [Rec(op, NilPtr, RetOpt(HeapPtr(Len(oheap) + 1))) EXCEPT !.argv = v]
       /\ UNCHANGED rheap
    \/ Reads([Rec(op, NilPtr, RetOpt(FreshOpt(s.value))) EXCEPT !.argv = v])

CallOptionNew == \E v \in PtrT : OptionConstruct("option.New", v, OptionNewStruct(v))
CallOptionSome == \E v \in PtrT : OptionConstruct("option.Some", v, OptionSomeStruct(v))
CallOptionNone == OptionConstruct("option.None", Nil, OptionNoneStruct)

\* ---- functions and methods: the outcome of each body ----
\* every body starts by reading o.value, which panics on a nil *Option
OptionMap(o, f) ==
    IF o = NilPtr THEN Panic(NilDerefMsg)
    ELSE IF OptionOf(o).value = Nil THEN RetOpt(FreshOpt(Nil))
    ELSE Called(RetOpt(FreshOpt(f[OptionOf(o).value])))

\* fres is what f(o.value) returns
OptionMapOr(o, fallback, fres) ==
    IF o = NilPtr THEN Panic(NilDerefMsg)
    ELSE IF OptionOf(o).value = Nil THEN RetVal(fallback)
    ELSE Called(RetVal(fres))

\* fb is what fallbackFn() returns, fres what f(o.value) returns
OptionMapOrElse(o, fb, fres) ==
    IF o = NilPtr THEN Panic(NilDerefMsg)
    ELSE IF OptionOf(o).value = Nil THEN Called(RetVal(fb))
    ELSE Called(RetVal(fres))

OptionAnd(in, out) ==
    IF in = NilPtr THEN Panic(NilDerefMsg)
    ELSE IF OptionOf(in).value = Nil THEN RetOpt(NilPtr)
    ELSE RetOpt(out)

\* fres is what f(in.value) returns
OptionAndThen(in, fres) ==
    IF in = NilPtr THEN Panic(NilDerefMsg)
    ELSE IF OptionOf(in).value = Nil THEN RetOpt(NilPtr)
    ELSE Called(RetOpt(fres))

OptionIsSome(o) ==
    IF o = NilPtr THEN Panic(NilDerefMsg)
    ELSE RetBool(OptionOf(o).value # Nil)

\* fres is what f(o.value) returns
OptionIsSomeAnd(o, fres) ==
    IF o = NilPtr THEN Panic(NilDerefMsg)
    ELSE IF OptionOf(o).value # Nil THEN Called(RetBool(fres))
    ELSE RetBool(FALSE)

OptionIsNone(o) ==
    IF o = NilPtr THEN Panic(NilDerefMsg)
    ELSE RetBool(OptionOf(o).value = Nil)

OptionExpect(o, msg) ==
    IF o = NilPtr THEN Panic(NilDerefMsg)
    ELSE IF OptionOf(o).value = Nil THEN Panic(msg)
    ELSE RetVal(OptionOf(o).value)

OptionUnwrap(o, msg) ==
    IF o = NilPtr THEN Panic(NilDerefMsg)
    ELSE IF OptionOf(o).value = Nil THEN Panic(OptionUnwrapMsg)
    ELSE RetVal(OptionOf(o).value)

OptionUnwrapOr(o, v) ==
    IF o = NilPtr THEN Panic(NilDerefMsg)
    ELSE IF OptionOf(o).value = Nil THEN RetVal(v)
    ELSE RetVal(OptionOf(o).value)

\* fres is what f() returns
OptionUnwrapOrElse(o, fres) ==
    IF o = NilPtr THEN Panic(NilDerefMsg)
    ELSE IF OptionOf(o).value = Nil THEN Called(RetVal(fres))
    ELSE RetVal(OptionOf(o).value)

OptionUnwrapOrDefault(o) ==
    IF o = NilPtr THEN Panic(NilDerefMsg)
    ELSE IF OptionOf(o).value = Nil THEN RetVal(Nil)
    ELSE RetVal(OptionOf(o).value)

OptionInspect(o) ==
    IF o = NilPtr THEN Panic(NilDerefMsg)
    ELSE IF OptionOf(o).value # Nil THEN Called(RetOpt(o))
    ELSE RetOpt(o)

OptionOr(o, optb) ==
    IF o = NilPtr THEN Panic(NilDerefMsg)
    ELSE IF OptionOf(o).value # Nil THEN RetOpt(o)
    ELSE RetOpt(optb)

\* fres is what f() returns
OptionOrElse(o, fres) ==
    IF o = NilPtr THEN Panic(NilDerefMsg)
    ELSE IF OptionOf(o).value # Nil THEN RetOpt(o)
    ELSE Called(RetOpt(fres))

OptionXOr(o, optb) ==
    IF o = NilPtr THEN Panic(NilDerefMsg)
    ELSE IF OptionOf(o).value # Nil THEN RetOpt(o)
    ELSE IF optb = NilPtr THEN Panic(NilDerefMsg)
    ELSE IF OptionOf(optb).value # Nil THEN RetOpt(optb)
    ELSE RetOpt(NilPtr)

\* ---- the three methods that write the receiver: what they return, what they store ----
OptionTake(o) ==
    IF o = NilPtr THEN Panic(NilDerefMsg)
    ELSE RetVal(OptionOf(o).value)

\* a faulty OptionTakeStruct: the slot is not cleared
OptionTakeStructKeeps(o) == OptionOf(o)

OptionTakeStruct(o) == [value |-> Nil]

\* f is called on o.value whatever it is, nil included; fres is what it returns
OptionTakeIf(o, fres) ==
    IF o = NilPtr THEN Panic(NilDerefMsg)
    ELSE IF fres THEN Called(RetVal(OptionOf(o).value))
    ELSE Called(RetVal(Nil))

OptionTakeIfStruct(o, fres) == IF fres THEN [value |-> Nil] ELSE OptionOf(o)

OptionReplace(o, v) ==
    IF o = NilPtr THEN Panic(NilDerefMsg)
    ELSE RetVal(OptionOf(o).value)

OptionReplaceStruct(o, v) == [value |-> v]

\* a call that stores struct s in its receiver o (nothing is stored through a nil pointer)
Writes(rec, o, s) ==
    /\ Idle
    /\ last' = rec
    /\ oheap' = IF o = NilPtr THEN oheap ELSE [oheap EXCEPT ![o.ref] = s]
    /\ UNCHANGED rheap

\* ---- one action per exported function or method ----
CallOptionMap == \E o \in OptRecvs, f \in Fns : Reads([Rec("option.Map", o, OptionMap(o, f)) EXCEPT !.fn = f])
CallOptionMapOr == \E o \in OptRecvs, fallback \in PtrT, fres \in PtrT : Reads([Rec("option.MapOr", o, OptionMapOr(o, fallback, fres)) EXCEPT !.argv = fallback])
CallOptionMapOrElse == \E o \in OptRecvs, fb \in PtrT, fres \in PtrT : Reads([Rec("option.MapOrElse", o, OptionMapOrElse(o, fb, fres)) EXCEPT !.argv = fb])
CallOptionAnd == \E in \in OptRecvs, out \in OptPtrs : Reads([Rec("option.And", in, OptionAnd(in, out)) EXCEPT !.argp = out])
CallOptionAndThen == \E in \in OptRecvs, fres \in OptPtrs : Reads([Rec("option.AndThen", in, OptionAndThen(in, fres)) EXCEPT !.argp = fres])
CallOptionIsSome == \E o \in OptRecvs : Reads(Rec("Option.IsSome", o, OptionIsSome(o)))
CallOptionIsSomeAnd == \E o \in OptRecvs, fres \in BOOLEAN : Reads(Rec("Option.IsSomeAnd", o, OptionIsSomeAnd(o, fres)))
CallOptionIsNone == \E o \in OptRecvs : Reads(Rec("Option.IsNone", o, OptionIsNone(o)))
CallOptionExpect == \E o \in OptRecvs, msg \in Msgs : Reads([Rec("Option.Expect", o, OptionExpect(o, msg)) EXCEPT !.argmsg = msg])
CallOptionUnwrap == \E o \in OptRecvs, msg \in Msgs : Reads([Rec("Option.Unwrap", o, OptionUnwrap(o, msg)) EXCEPT !.argmsg = msg])
CallOptionUnwrapOr == \E o \in OptRecvs, v \in PtrT : Reads([Rec("Option.UnwrapOr", o, OptionUnwrapOr(o, v)) EXCEPT !.argv = v])
CallOptionUnwrapOrElse == \E o \in OptRecvs, fres \in PtrT : Reads([Rec("Option.UnwrapOrElse", o, OptionUnwrapOrElse(o, fres)) EXCEPT !.argv = fres])
CallOptionUnwrapOrDefault == \E o \in OptRecvs : Reads(Rec("Option.UnwrapOrDefault", o, OptionUnwrapOrDefault(o)))
\* a faulty CallOptionInspect: Inspect consumes the receiver
CallOptionInspectConsumes == \E o \in OptRecvs : Writes(Rec("Option.Inspect", o, OptionInspect(o)), o, [value |-> Nil])

CallOptionInspect == \E o \in OptRecvs : Reads(Rec("Option.Inspect", o, OptionInspect(o)))
CallOptionOr == \E o \in OptRecvs, optb \in OptPtrs : Reads([Rec("Option.Or", o, OptionOr(o, optb)) EXCEPT !.argp = optb])
CallOptionOrElse == \E o \in OptRecvs, fres \in OptPtrs : Reads([Rec("Option.OrElse", o, OptionOrElse(o, fres)) EXCEPT !.argp = fres])
CallOptionXOr == \E o \in OptRecvs, optb \in OptPtrs : Reads([Rec("Option.XOr", o, OptionXOr(o, optb)) EXCEPT !.argp = optb])
CallOptionTake == \E o \in OptRecvs : Writes(Rec("Option.Take", o, OptionTake(o)), o, OptionTakeStruct(o))
CallOptionTakeIf == \E o \in OptRecvs, fres \in BOOLEAN : Writes(Rec("Option.TakeIf", o, OptionTakeIf(o, fres)), o, OptionTakeIfStruct(o, fres))
CallOptionReplace == \E o \in OptRecvs, v \in PtrT : Writes([Rec("Option.Replace", o, OptionReplace(o, v)) EXCEPT !.argv = v], o, OptionReplaceStruct(o, v))

NextOption ==
    \/ Return
    \/ CallOptionNew
    \/ CallOptionSome
    \/ CallOptionNone
    \/ CallOptionMap
    \/ CallOptionMapOr
    \/ CallOptionMapOrElse
    \/ CallOptionAnd
    \/ CallOptionAndThen
    \/ CallOptionIsSome
    \/ CallOptionIsSomeAnd
    \/ CallOptionIsNone
    \/ CallOptionExpect
    \/ CallOptionUnwrap
    \/ CallOptionUnwrapOr
    \/ CallOptionUnwrapOrElse
    \/ CallOptionUnwrapOrDefault
    \/ CallOptionInspect
    \/ CallOptionOr
    \/ CallOptionOrElse
    \/ CallOptionXOr
    \/ CallOptionTake
    \/ CallOptionTakeIf
    \/ CallOptionReplace

SpecOption == Init /\ [][NextOption]_vars

\* ======================= package result =======================

\* ---- constructors: the struct each one builds ----
\* a faulty ResultNewStruct: the value is kept beside the error
ResultNewStructKeepsValue(v, e) == [value |-> v, err |-> e]

ResultNewStruct(v, e) == IF e = NilErr THEN [value |-> v, err |-> NilErr] ELSE [value |-> Nil, err |-> e]
ResultOkStruct(v) == [value |-> v, err |-> NilErr]
ResultErrStruct(err) == [value |-> Nil, err |-> err]

FreshOf(s) == FreshRes(s.value, s.err)

\* the caller either keeps the new object (it joins the heap) or uses it as a temporary
ResultConstruct(op, v, e, s) ==
    \/ /\ Idle
       /\ Len(oheap) + Len(rheap) < MaxObjs
       /\ rheap' = Append(rheap, s)
       /\ last' = [Rec(op, NilPtr, RetRes(HeapPtr(Len(rheap) + 1))) EXCEPT !.argv = v, !.arge = e]
       /\ UNCHANGED oheap
    \/ Reads([Rec(op, NilPtr, RetRes(FreshOf(s))) EXCEPT !.argv = v, !.arge = e])

CallResultNew == \E v \in PtrT, e \in ErrT : ResultConstruct("result.New", v, e, ResultNewStruct(v, e))
CallResultOk == \E v \in PtrT : ResultConstruct("result.Ok", v, NilErr, ResultOkStruct(v))
CallResultErr == \E err \in ErrT : ResultConstruct("result.Err", Nil, err, ResultErrStruct(err))

\* ---- functions and methods: the outcome of each body ----
ResultIsOk(r) == RetBool(ResultOf(r).err = NilErr)

ResultIsErr(r) == RetBool(ResultOf(r).err # NilErr)

ResultAnd(in, out) ==
    IF ResultIsErr(in).rb THEN RetRes(FreshOf(ResultErrStruct(ResultOf(in).err)))
    ELSE RetRes(out)

\* opres is what op(in.value) returns
ResultAndThen(in, opres) ==
    IF ResultIsErr(in).rb THEN RetRes(FreshOf(ResultErrStruct(ResultOf(in).err)))
    ELSE Called(RetRes(opres))

ResultMap(r, f) ==
    IF ResultIsErr(r).rb THEN RetRes(FreshOf(ResultErrStruct(ResultOf(r).err)))
    ELSE Called(RetRes(FreshOf(ResultOkStruct(f[ResultOf(r).value]))))

\* fres is what f(r.value) returns
ResultMapOr(r, fallback, fres) ==
    IF ResultIsErr(r).rb THEN RetVal(fallback)
    ELSE Called(RetVal(fres))

\* fb is what fallbackFn(r.err) returns, fres what f(r.value) returns
ResultMapOrElse(r, fb, fres) ==
    IF ResultIsErr(r).rb THEN Called(RetVal(fb))
    ELSE Called(RetVal(fres))

ResultMapErr(r, f) ==
    IF ResultIsOk(r).rb THEN RetRes(r)
    ELSE Called(RetRes(FreshOf(ResultErrStruct(f[ResultOf(r).err]))))

\* fres is what f(r.value) returns
ResultIsOkAnd(r, fres) ==
    IF ResultIsErr(r).rb THEN RetBool(FALSE)
    ELSE Called(RetBool(fres))

\* the predicate passed on is t != nil
ResultIsOkAndNotNil(r) == ResultIsOkAnd(r, ResultOf(r).value # Nil)

\* fres is what f(r.err) returns
ResultIsErrAnd(r, fres) ==
    IF ResultIsErr(r).rb THEN RetBool(TRUE)
    ELSE Called(RetBool(fres))

ResultInspect(r) ==
    IF ResultIsOk(r).rb THEN Called(RetRes(r))
    ELSE RetRes(r)

ResultInspectErr(r) ==
    IF ResultIsErr(r).rb THEN Called(RetRes(r))
    ELSE RetRes(r)

ResultExpect(r, msg) ==
    IF ResultIsErr(r).rb THEN Panic(msg)
    ELSE RetVal(ResultOf(r).value)

ResultExpectErr(r, msg) ==
    IF ResultIsOk(r).rb THEN Panic(msg)
    ELSE RetErr(ResultOf(r).err)

\* a faulty ResultUnwrap: the state is not checked
ResultUnwrapUnchecked(r) == RetVal(ResultOf(r).value)

ResultUnwrap(r) ==
    IF ResultIsErr(r).rb THEN Panic(ResultUnwrapMsg)
    ELSE RetVal(ResultOf(r).value)

ResultUnwrapError(r) ==
    IF ResultIsOk(r).rb THEN Panic(ResultUnwrapErrMsg)
    ELSE RetErr(ResultOf(r).err)

ResultUnwrapOr(r, v) ==
    IF ResultIsErr(r).rb THEN RetVal(v)
    ELSE RetVal(ResultOf(r).value)

\* fres is what f() returns
ResultUnwrapOrElse(r, fres) ==
    IF ResultIsErr(r).rb THEN Called(RetVal(fres))
    ELSE RetVal(ResultOf(r).value)

ResultUnwrapOrDefault(r) ==
    IF ResultIsErr(r).rb THEN RetVal(Nil)
    ELSE RetVal(ResultOf(r).value)

ResultOr(r, res) ==
    IF ResultIsOk(r).rb THEN RetRes(r)
    ELSE RetRes(res)

\* opres is what op(r.err) returns
ResultOrElse(r, opres) ==
    IF ResultIsOk(r).rb THEN RetRes(r)
    ELSE Called(RetRes(opres))

\* ---- one action per exported function or method ----
CallResultAnd == \E in \in ResHeapPtrs, out \in ResPtrs : Reads([Rec("result.And", in, ResultAnd(in, out)) EXCEPT !.argp = out])
CallResultAndThen == \E in \in ResHeapPtrs, opres \in ResPtrs : Reads([Rec("result.AndThen", in, ResultAndThen(in, opres)) EXCEPT !.argp = opres])
CallResultMap == \E r \in ResHeapPtrs, f \in Fns : Reads([Rec("result.Map", r, ResultMap(r, f)) EXCEPT !.fn = f])
CallResultMapOr == \E r \in ResHeapPtrs, fallback \in PtrT, fres \in PtrT : Reads([Rec("result.MapOr", r, ResultMapOr(r, fallback, fres)) EXCEPT !.argv = fallback])
CallResultMapOrElse == \E r \in ResHeapPtrs, fb \in PtrT, fres \in PtrT : Reads([Rec("result.MapOrElse", r, ResultMapOrElse(r, fb, fres)) EXCEPT !.argv = fb])
CallResultMapErr == \E r \in ResHeapPtrs, f \in ErrFns : Reads(Rec("result.MapErr", r, ResultMapErr(r, f)))
CallResultIsOk == \E r \in ResHeapPtrs : Reads(Rec("Result.IsOk", r, ResultIsOk(r)))
CallResultIsOkAnd == \E r \in ResHeapPtrs, fres \in BOOLEAN : Reads(Rec("Result.IsOkAnd", r, ResultIsOkAnd(r, fres)))
CallResultIsOkAndNotNil == \E r \in ResHeapPtrs : Reads(Rec("Result.IsOkAndNotNil", r, ResultIsOkAndNotNil(r)))
CallResultIsErr == \E r \in ResHeapPtrs : Reads(Rec("Result.IsErr", r, ResultIsErr(r)))
CallResultIsErrAnd == \E r \in ResHeapPtrs, fres \in BOOLEAN : Reads([Rec("Result.IsErrAnd", r, ResultIsErrAnd(r, fres)) EXCEPT !.argb = fres])
CallResultInspect == \E r \in ResHeapPtrs : Reads(Rec("Result.Inspect", r, ResultInspect(r)))
CallResultInspectErr == \E r \in ResHeapPtrs : Reads(Rec("Result.InspectErr", r, ResultInspectErr(r)))
CallResultExpect == \E r \in ResHeapPtrs, msg \in Msgs : Reads([Rec("Result.Expect", r, ResultExpect(r, msg)) EXCEPT !.argmsg = msg])
CallResultExpectErr == \E r \in ResHeapPtrs, msg \in Msgs : Reads([Rec("Result.ExpectErr", r, ResultExpectErr(r, msg)) EXCEPT !.argmsg = msg])
CallResultUnwrap == \E r \in ResHeapPtrs : Reads(Rec("Result.Unwrap", r, ResultUnwrap(r)))
CallResultUnwrapError == \E r \in ResHeapPtrs : Reads(Rec("Result.UnwrapError", r, ResultUnwrapError(r)))
CallResultUnwrapOr == \E r \in ResHeapPtrs, v \in PtrT : Reads([Rec("Result.UnwrapOr", r, ResultUnwrapOr(r, v)) EXCEPT !.argv = v])
CallResultUnwrapOrElse == \E r \in ResHeapPtrs, fres \in PtrT : Reads([Rec("Result.UnwrapOrElse", r, ResultUnwrapOrElse(r, fres)) EXCEPT !.argv = fres])
CallResultUnwrapOrDefault == \E r \in ResHeapPtrs : Reads(Rec("Result.UnwrapOrDefault", r, ResultUnwrapOrDefault(r)))
CallResultOr == \E r \in ResHeapPtrs, res \in ResPtrs : Reads([Rec("Result.Or", r, ResultOr(r, res)) EXCEPT !.argp = res])
CallResultOrElse == \E r \in ResHeapPtrs, opres \in ResPtrs : Reads([Rec("Result.OrElse", r, ResultOrElse(r, opres)) EXCEPT !.argp = opres])

NextResult ==
    \/ Return
    \/ CallResultErr
    \/ CallResultOk
    \/ CallResultNew
    \/ CallResultAnd
    \/ CallResultAndThen
    \/ CallResultMap
    \/ CallResultMapOr
    \/ CallResultMapOrElse
    \/ CallResultMapErr
    \/ CallResultIsOk
    \/ CallResultIsOkAnd
    \/ CallResultIsOkAndNotNil
    \/ CallResultIsErr
    \/ CallResultIsErrAnd
    \/ CallResultInspect
    \/ CallResultInspectErr
    \/ CallResultExpect
    \/ CallResultExpectErr
    \/ CallResultUnwrap
    \/ CallResultUnwrapError
    \/ CallResultUnwrapOr
    \/ CallResultUnwrapOrElse
    \/ CallResultUnwrapOrDefault
    \/ CallResultOr
    \/ CallResultOrElse

SpecResult == Init /\ [][NextResult]_vars

\* a program that uses both packages (examples/main.go)
Next == NextOption \/ NextResult

Spec == Init /\ [][Next]_vars

\* ======================= properties =======================

\* the last call returned a pointer to the result (resp. option) ret
ret == last.out.rp
ResultCtors == {"result.New", "result.Ok", "result.Err"}

\* C1: Ok(v) reports IsOk() = true and Err(e) reports IsErr() = true for every
\* v and every e, and a Result built by Ok, Err or New reports exactly one of
\* IsOk() and IsErr().
C1_ConstructedState ==
    /\ last.op = "result.Ok" => ResultIsOk(ret).rb
    /\ last.op = "result.Err" => ResultIsErr(ret).rb
    /\ last.op \in ResultCtors => (ResultIsOk(ret).rb # ResultIsErr(ret).rb)

\* C2: New(v, e) with a non-nil e is Err, carries exactly e and holds no value
\* (UnwrapOrDefault yields nil); with a nil e it is Ok and Unwrap() returns
\* exactly v, nil included.
C2_NewErrorAuthoritative ==
    last.op = "result.New" =>
        IF last.arge # NilErr
        THEN /\ ResultOf(ret) = [value |-> Nil, err |-> last.arge]
             /\ ResultIsErr(ret).rb /\ ~ResultIsOk(ret).rb
             /\ ResultUnwrapError(ret) = RetErr(last.arge)
             /\ ResultUnwrapOrDefault(ret) = RetVal(Nil)
        ELSE /\ ResultIsOk(ret).rb /\ ~ResultIsErr(ret).rb
             /\ ResultUnwrap(ret) = RetVal(last.argv)

\* New was called with a value and a non-nil error
C2_Witness == last.op = "result.New" /\ last.arge # NilErr /\ last.argv # Nil

\* C3: New(v) is present exactly when v is non-nil, None() is absent, and
\* Some(v) is present (IsSome() true, IsNone() false) for every v, nil included.
C3_ConstructorAsymmetry ==
    /\ last.op = "option.New" =>
            /\ OptionIsSome(ret) = RetBool(last.argv # Nil)
            /\ OptionIsNone(ret) = RetBool(last.argv = Nil)
    /\ last.op = "option.None" =>
            /\ OptionIsSome(ret) = RetBool(FALSE)
            /\ OptionIsNone(ret) = RetBool(TRUE)
    /\ last.op = "option.Some" =>
            /\ OptionIsSome(ret) = RetBool(TRUE)
            /\ OptionIsNone(ret) = RetBool(FALSE)

\* C4: a.XOr(b) is a present Option holding the value of the present one when
\* exactly one of a, b is present, and otherwise (both present, both absent)
\* an Option on which IsNone() is true.
C4_XOr ==
    (last.op = "Option.XOr" /\ last.recv # NilPtr /\ last.argp # NilPtr) =>
        LET a == OptionOf(last.recv).value
            b == OptionOf(last.argp).value
        IN  IF (a # Nil) # (b # Nil)
            THEN /\ last.out.rkind = "option"
                 /\ OptionIsSome(ret) = RetBool(TRUE)
                 /\ OptionUnwrapOrDefault(ret) = RetVal(IF a # Nil THEN a ELSE b)
            ELSE /\ last.out.rkind = "option"
                 /\ OptionIsNone(ret) = RetBool(TRUE)

\* C5: for an absent in, And(in, out) and AndThen(in, f) return an Option on
\* which IsNone() is true and IsSome() is false, without calling f; for a
\* present in, And returns out and AndThen returns f(value).
C5_AndAbsent ==
    (last.op \in {"option.And", "option.AndThen"} /\ last.recv # NilPtr) =>
        IF OptionOf(last.recv).value = Nil
        THEN /\ ~last.out.called
             /\ last.out.rkind = "option"
             /\ OptionIsNone(ret) = RetBool(TRUE)
             /\ OptionIsSome(ret) = RetBool(FALSE)
        ELSE /\ last.out.rkind = "option"
             /\ ret = last.argp
             /\ last.out.called = (last.op = "option.AndThen")

\* C6: r.IsErrAnd(f) is true exactly when r is Err and f holds on the carried
\* error (last.argb is f(r.err)).
C6_IsErrAnd ==
    last.op = "Result.IsErrAnd" =>
        last.out = RetBool(ResultOf(last.recv).err # NilErr /\ last.argb)
        \/ last.out = Called(RetBool(ResultOf(last.recv).err # NilErr /\ last.argb))

UnwrapFamily == {"Result.Unwrap", "Result.Expect", "Result.UnwrapError", "Result.ExpectErr"}

\* C7 (outcome): on an Ok result Unwrap() and Expect(msg) return the value and
\* UnwrapError() and ExpectErr(msg) panic; on an Err result UnwrapError() and
\* ExpectErr(msg) return the error, Unwrap() panics with the fixed diagnostic
\* and Expect(msg) panics with exactly msg; the receiver is never changed.
C7_UnwrapOutcome ==
    last.op \in UnwrapFamily =>
        LET r == ResultOf(last.recv)
        IN  IF r.err = NilErr
            THEN /\ last.op \in {"Result.Unwrap", "Result.Expect"} => last.out = RetVal(r.value)
                 /\ last.op = "Result.UnwrapError" => last.out = Panic(ResultUnwrapErrMsg)
                 /\ last.op = "Result.ExpectErr" => last.out = Panic(last.argmsg)
            ELSE /\ last.op \in {"Result.UnwrapError", "Result.ExpectErr"} => last.out = RetErr(r.err)
                 /\ last.op = "Result.Unwrap" => last.out = Panic(ResultUnwrapMsg)
                 /\ last.op = "Result.Expect" => last.out = Panic(last.argmsg)

\* C7: the outcome above holds in every state, and no step that is one of the
\* four accessors changes a Result.
C7_UnwrapFamily ==
    /\ []C7_UnwrapOutcome
    /\ [][last'.op \in UnwrapFamily => rheap' = rheap]_vars

\* Expect(msg) has panicked on an Err result
C7_Witness == last.op = "Result.Expect" /\ ResultOf(last.recv).err # NilErr /\ last.out.panicked /\ last.out.pmsg = last.argmsg

\* C8: Map over Ok(v) returns an Ok result whose Unwrap() is f(v); Map over
\* Err(e) returns an Err result whose UnwrapError() is e and does not call f;
\* the input is untouched.  (Map takes its Result by value, so the input is
\* Ok(v) or Err(e) when it equals the struct that constructor builds.)
C8_MapOutcome ==
    last.op = "result.Map" =>
        /\ \A v \in PtrT : ResultOf(last.recv) = ResultOkStruct(v) =>
                /\ ResultIsOk(ret).rb
                /\ ResultUnwrap(ret) = RetVal(last.fn[v])
        /\ \A e \in ErrT : ResultOf(last.recv) = ResultErrStruct(e) =>
                /\ ~last.out.called
                /\ ResultIsErr(ret).rb
                /\ ResultUnwrapError(ret) = RetErr(e)

\* C9: Take() returns what the slot held and leaves the receiver absent, and
\* an absent slot becomes present only by a Replace with a non-nil value.
C9_TakeLeavesNone ==
    [][ /\ (last'.op = "Option.Take" /\ last'.recv # NilPtr) =>
            /\ last'.out = RetVal(oheap[last'.recv.ref].value)
            /\ \A o \in OptHeapPtrs : o = last'.recv =>
                    /\ OptionOf(o)' = [value |-> Nil]
                    /\ OptionIsNone(o)' = RetBool(TRUE)
        /\ \A i \in 1..Len(oheap) :
            (oheap[i].value = Nil /\ oheap'[i].value # Nil) =>
                /\ last'.op = "Option.Replace"
                /\ last'.recv = HeapPtr(i)
                /\ last'.argv # Nil ]_vars

\* Take has emptied a present Option and returned its value
C9_Witness == last.op = "Option.Take" /\ last.recv # NilPtr /\ last.out.rv # Nil /\ oheap[last.recv.ref].value = Nil

Mutators == {"Option.Take", "Option.TakeIf", "Option.Replace"}

\* C10: a Result never changes after construction, and the slot of an Option
\* changes only in a Take, TakeIf or Replace on that Option.
C10_Immutability ==
    [][ /\ \A i \in 1..Len(rheap) : rheap'[i] = rheap[i]
        /\ \A i \in 1..Len(oheap) :
            oheap'[i] # oheap[i] => (last'.op \in Mutators /\ last'.recv = HeapPtr(i)) ]_vars

\* Inspect has called its closure on an Option while another Option and a Result exist
C10_Witness == last.op = "Option.Inspect" /\ last.out.called /\ Len(oheap) >= 1 /\ Len(rheap) >= 1

====
